---- MODULE Spec2Model ----
(***************************************************************************)
(* Model of rehydration/rehydrate.py: the batch rehydrator.  A process     *)
(* reads tweet ids from the id file, groups them into chunks, looks each   *)
(* chunk up through the rate-limited API, appends the returned tweets to   *)
(* the output file as a JSON array and the ids that did not come back to   *)
(* the missing file.  A killed process can be launched again with the      *)
(* restart option against the output file it left behind.                  *)
(*                                                                         *)
(* `run` is the process under study.  `fresh` is a second process launched *)
(* without the restart option on the same id file and the same output      *)
(* file, which receives the same lookup answers step for step: it is the   *)
(* reference against which a restart at line 1 is compared.                *)
(***************************************************************************)
EXTENDS Integers, Sequences, FiniteSets, TLC

VARIABLES idFile, chunkSize, run, fresh

vars == <<idFile, chunkSize, run, fresh>>

----------------------------------------------------------------------------
(* Bounds of the model *)

\* longest id file, in lines
MaxLines == 3
\* number of distinct tweet ids that can occur in the id file
NumIds == 2
\* largest in-range --chunk-size argument tried (besides the ceiling itself)
MaxChunkArg == 2
\* the reset timestamp of a rate-limited answer lies within MaxSkew seconds of
\* the local clock, before it or after it
MaxSkew == 2

----------------------------------------------------------------------------
(* Program constants *)

\* the API ceiling on ids per lookup, and the default of --chunk-size
ChunkLimit == 100

OpenBracket == "[\n"
Separator == ",\n"
CloseBracket == "\n]\n"

----------------------------------------------------------------------------
(* Inputs *)

IdNames == <<"1", "2", "3", "4", "5">>
Ids == {IdNames[i] : i \in 1..NumIds}

Range(s) == {s[i] : i \in 1..Len(s)}
SeqsUpTo(S, n) == UNION {[1..k -> S] : k \in 0..n}
IsDistinct(s) == Cardinality(Range(s)) = Len(s)

\* The id files: any list of ids, repeated ids included.  The program only
\* compares ids with each other, so the lists are taken up to a renaming of
\* the ids: the first line holds id "1", and a line holds either an id of an
\* earlier line or the next unused id.
IdIndex(id) == CHOOSE i \in 1..NumIds : IdNames[i] = id
InOrderOfAppearance(s) ==
    \A n \in 1..Len(s) :
        \A j \in 1..(IdIndex(s[n]) - 1) : \E m \in 1..(n - 1) : s[m] = IdNames[j]
IdFiles == {s \in SeqsUpTo(Ids, MaxLines) : InOrderOfAppearance(s)}

\* the values given to --chunk-size: in range, and out of range on both sides
ChunkSizeArgs == (0..MaxChunkArg) \cup {ChunkLimit, ChunkLimit + 1}

\* the values given to --restart
RestartLines == 1..MaxLines

\* the local clock readings, and for each the reset timestamps the service
\* can send: the two clocks are not synchronised and the answer takes time to
\* arrive, so the timestamp can already lie in the past
Times == MaxSkew..(2 * MaxSkew)
ResetTimes(now) == (now - MaxSkew)..(now + MaxSkew)

\* a tweet object as the lookup returns it
Tweet(id) == [id_str |-> id]

\* What a lookup of the ids `chunk` can return: the tweets of any of the ids
\* asked for, each at most once, in the order the service chooses.
Responses(chunk) ==
    {[i \in 1..Len(s) |-> Tweet(s[i])] :
        s \in {t \in SeqsUpTo(Range(chunk), Cardinality(Range(chunk))) : IsDistinct(t)}}

----------------------------------------------------------------------------
(* Pure pieces of the program *)

\* args.chunkSize after the bounds check
ClampChunkSize(c) == IF c > ChunkLimit \/ c < 1 THEN ChunkLimit ELSE c

\* faulty variant: every restart clears firstLine
InitialFirstLineAnyRestart(given, restartAtLine) ==
    IF given THEN FALSE ELSE TRUE

\* firstLine after the restart handling: TRUE, unless restarting at a line
\* other than 1
InitialFirstLine(given, restartAtLine) ==
    IF given /\ 1 # restartAtLine THEN FALSE ELSE TRUE

\* the skip loop: readline() until restartAtLine - 1 lines are counted or the
\* file ends; the value is numLinesProcessed after the loop
RECURSIVE SkipFrom(_, _, _)
SkipFrom(n, restartAtLine, nLines) ==
    IF n # restartAtLine - 1 /\ n < nLines
    THEN SkipFrom(n + 1, restartAtLine, nLines)
    ELSE n

\* faulty variant: the skip loop counts up to restartAtLine
SkipLinesOneMore(given, restartAtLine, nLines) ==
    IF given THEN SkipFrom(0, restartAtLine + 1, nLines) ELSE 0

SkipLines(given, restartAtLine, nLines) ==
    IF given THEN SkipFrom(0, restartAtLine, nLines) ELSE 0

\* the first string written to the output file
Preamble(appendExistingFile, given) ==
    IF appendExistingFile /\ given THEN Separator ELSE OpenBracket

\* json.dumps(tweet, separators=(',',':')): the compact text of one tweet
\* object, which the model identifies by the id it carries
JsonDumps(tweet) == tweet.id_str

\* faulty variant: every id of a short answer is reported missing
MissingIdsAll(tweetIdList, rehydratedTweets) ==
    IF Len(tweetIdList) # Len(rehydratedTweets) THEN Range(tweetIdList) ELSE {}

\* the ids written to the missing file by one call of rehydrateTweets
MissingIds(tweetIdList, rehydratedTweets) ==
    IF Len(tweetIdList) # Len(rehydratedTweets)
    THEN Range(tweetIdList) \ {rehydratedTweets[i].id_str : i \in 1..Len(rehydratedTweets)}
    ELSE {}

\* the strings written to the output file by the save loop of rehydrateTweets;
\* the parameter firstLine is reassigned only in the branch where it is TRUE
RECURSIVE WriteTweets(_, _)
WriteTweets(firstLine, tweets) ==
    IF tweets = <<>> THEN <<>>
    ELSE LET sep == IF firstLine THEN <<>> ELSE <<Separator>>
             nextFirstLine == IF firstLine THEN TRUE ELSE firstLine
         IN  sep \o <<JsonDumps(Head(tweets))>> \o WriteTweets(nextFirstLine, Tail(tweets))

\* delta of the rate-limit handler
RateLimitDelta(resetTime, now) == resetTime - now

\* the argument given to time.sleep by the rate-limit handler
SleepArg(delta) == delta + 1

----------------------------------------------------------------------------
(* The process *)

\* the content of the output file on disk: what was there when the process
\* opened it, then the part of its writes that has been flushed
FileContent(r) == r.disk \o SubSeq(r.written, 1, r.flushed)

\* the lines of the id file that the chunk buffer holds
ChunkLines(r) == (r.numLinesProcessed - Len(r.tweetIdList) + 1)..r.numLinesProcessed

\* A launched process, after argument parsing and the opening of the files,
\* with the module-level variables at their initial values.
NewProcess(given, restartAtLine, appendExistingFile, disk) ==
    [pc |-> "start",
     restartGiven |-> given,
     restartAtLine |-> restartAtLine,
     appendExistingFile |-> appendExistingFile,
     firstLine |-> TRUE,
     tweetIdList |-> <<>>,
     linesInCurrentChunk |-> 0,
     numLinesProcessed |-> 0,
     numChunksProcessed |-> 0,
     rehydratedTweets |-> <<>>,
     \* locals of the running call of rehydrateTweets
     caller |-> "none",
     constructedUrl |-> <<>>,
     rateLimit |-> <<>>,
     \* the output file and the missing file
     disk |-> disk,
     written |-> <<>>,
     flushed |-> 0,
     missingFd |-> [i \in Ids |-> 0],
     \* history: lines skipped at start, calls of rehydrateTweets on a
     \* non-empty list, calls that ended in a caught lookup error, the lines
     \* of those calls, the list of the last call that returned
     skipped |-> 0,
     numCalls |-> 0,
     numFailed |-> 0,
     failedLines |-> {},
     lastChunk |-> <<>>]

\* No process: the output file `disk` is all that is left of a killed one.
NoProcess(pc, disk) == [NewProcess(FALSE, 0, FALSE, disk) EXCEPT !.pc = pc]

\* rehydrateTweets is entered: an empty list returns at once, otherwise the
\* url is built from the list and the request loop starts
EnterRehydrate(r, caller) ==
    IF Len(r.tweetIdList) = 0
    THEN [r EXCEPT !.rehydratedTweets = <<>>,
                   !.pc = IF caller = "loop" THEN "read" ELSE "close"]
    ELSE [r EXCEPT !.pc = "lookup",
                   !.caller = caller,
                   !.constructedUrl = r.tweetIdList,
                   !.rateLimit = <<>>,
                   !.numCalls = @ + 1]

\* the restart handling and the first write
StartOp(r) ==
    IF r.pc # "start" THEN r
    ELSE LET n == SkipLines(r.restartGiven, r.restartAtLine, Len(idFile))
         IN  [r EXCEPT !.pc = "read",
                       !.firstLine = InitialFirstLine(r.restartGiven, r.restartAtLine),
                       !.numLinesProcessed = n,
                       !.skipped = n,
                       !.written = <<Preamble(r.appendExistingFile, r.restartGiven)>>]

\* one iteration of `for line in inFd`, up to the call of rehydrateTweets
ReadLineOp(r) ==
    IF r.pc # "read" \/ r.numLinesProcessed >= Len(idFile) THEN r
    ELSE LET q == [r EXCEPT !.numLinesProcessed = @ + 1,
                            !.linesInCurrentChunk = @ + 1,
                            !.tweetIdList = Append(@, idFile[r.numLinesProcessed + 1])]
         IN  IF q.linesInCurrentChunk = chunkSize
             THEN EnterRehydrate(q, "loop")
             ELSE q

\* the input is exhausted: the remaining lines, if any, are looked up
EndOfInputOp(r) ==
    IF r.pc # "read" \/ r.numLinesProcessed < Len(idFile) THEN r
    ELSE IF 0 # Len(r.tweetIdList)
         THEN EnterRehydrate([r EXCEPT !.numChunksProcessed = @ + 1], "rem")
         ELSE [r EXCEPT !.pc = "close"]

\* the lookup answers with `tweets`: the missing ids and the tweets are
\* written, rehydrateTweets returns and the caller goes on
LookupOKOp(r, tweets) ==
    IF r.pc # "lookup" THEN r
    ELSE LET missing == MissingIds(r.tweetIdList, tweets)
             out == r.written \o WriteTweets(r.firstLine, tweets)
             q == [r EXCEPT !.written = out,
                            !.flushed = IF tweets = <<>> THEN @ ELSE Len(out),
                            !.missingFd = [i \in Ids |-> @[i] + IF i \in missing THEN 1 ELSE 0],
                            !.rehydratedTweets = tweets,
                            !.firstLine = IF 0 # Len(tweets) THEN FALSE ELSE @,
                            !.lastChunk = r.tweetIdList,
                            !.caller = "none",
                            !.constructedUrl = <<>>,
                            !.rateLimit = <<>>]
         IN  IF r.caller = "loop"
             THEN [q EXCEPT !.pc = "read",
                            !.tweetIdList = <<>>,
                            !.linesInCurrentChunk = 0,
                            !.numChunksProcessed = @ + 1]
             ELSE [q EXCEPT !.pc = "close"]

\* the lookup answers "rate limit exceeded" with reset timestamp resetTime
\* while the clock reads now: sleep, then the request loop goes round again.
\* time.sleep raises on a negative argument, and nothing catches that.
RateLimitOp(r, resetTime, now) ==
    IF r.pc # "lookup" THEN r
    ELSE LET delta == RateLimitDelta(resetTime, now)
             q == [r EXCEPT !.rateLimit = <<[delta |-> delta, slept |-> SleepArg(delta)]>>]
         IN  IF SleepArg(delta) < 0
             THEN [q EXCEPT !.pc = "crashed", !.flushed = Len(r.written)]
             ELSE q

\* faulty variant: the caller does not catch the lookup error and the process dies
LookupErrorUncaught(r) ==
    IF r.pc # "lookup" THEN r
    ELSE [r EXCEPT !.pc = "uncaught", !.numFailed = @ + 1, !.flushed = Len(r.written)]

\* the lookup raises a TwythonError other than the rate limit: the caller
\* logs it and goes on, without reaching the statements that follow the call
LookupErrorOp(r) ==
    IF r.pc # "lookup" THEN r
    ELSE [r EXCEPT !.pc = IF r.caller = "loop" THEN "read" ELSE "close",
                   !.numFailed = @ + 1,
                   !.failedLines = @ \cup ChunkLines(r),
                   !.caller = "none",
                   !.constructedUrl = <<>>,
                   !.rateLimit = <<>>]

\* the closing brace is written and the files are closed
CloseOp(r) ==
    IF r.pc # "close" THEN r
    ELSE [r EXCEPT !.pc = "done",
                   !.written = Append(@, CloseBracket),
                   !.flushed = Len(r.written) + 1]

----------------------------------------------------------------------------
(* Actions *)

\* The reference process of a launch: it exists for a launch with restart
\* line 1, the launch it is compared with.
Reference(given, restartAtLine, appendExistingFile, disk) ==
    IF given /\ restartAtLine = 1
    THEN NewProcess(FALSE, 0, appendExistingFile, disk)
    ELSE NoProcess("unused", <<>>)

Init ==
    /\ idFile \in IdFiles
    /\ chunkSize \in {ClampChunkSize(c) : c \in ChunkSizeArgs}
    /\ \E given \in BOOLEAN :
       \E k \in IF given THEN RestartLines ELSE {0} :
          /\ run = NewProcess(given, k, FALSE, <<>>)
          /\ fresh = Reference(given, k, FALSE, <<>>)

Start ==
    /\ run.pc = "start"
    /\ run' = StartOp(run)
    /\ fresh' = StartOp(fresh)
    /\ UNCHANGED <<idFile, chunkSize>>

ReadLine ==
    /\ run.pc = "read"
    /\ run.numLinesProcessed < Len(idFile)
    /\ run' = ReadLineOp(run)
    /\ fresh' = ReadLineOp(fresh)
    /\ UNCHANGED <<idFile, chunkSize>>

EndOfInput ==
    /\ run.pc = "read"
    /\ run.numLinesProcessed >= Len(idFile)
    /\ run' = EndOfInputOp(run)
    /\ fresh' = EndOfInputOp(fresh)
    /\ UNCHANGED <<idFile, chunkSize>>

LookupOK ==
    /\ run.pc = "lookup"
    /\ \E tweets \in Responses(run.tweetIdList) :
          /\ run' = LookupOKOp(run, tweets)
          /\ fresh' = LookupOKOp(fresh, tweets)
    /\ UNCHANGED <<idFile, chunkSize>>

LookupRateLimit ==
    /\ run.pc = "lookup"
    /\ \E now \in Times : \E resetTime \in ResetTimes(now) :
          /\ run' = RateLimitOp(run, resetTime, now)
          /\ fresh' = RateLimitOp(fresh, resetTime, now)
    /\ UNCHANGED <<idFile, chunkSize>>

LookupError ==
    /\ run.pc = "lookup"
    /\ run' = LookupErrorOp(run)
    /\ fresh' = LookupErrorOp(fresh)
    /\ UNCHANGED <<idFile, chunkSize>>

Close ==
    /\ run.pc = "close"
    /\ run' = CloseOp(run)
    /\ fresh' = CloseOp(fresh)
    /\ UNCHANGED <<idFile, chunkSize>>

\* The first process is killed.  What it wrote since its last flush reaches
\* the disk or not.
Interrupt ==
    /\ run.pc \in {"start", "read", "lookup", "close"}
    /\ ~run.appendExistingFile
    /\ ~run.restartGiven
    /\ \E f \in {run.flushed, Len(run.written)} :
          run' = NoProcess("killed", FileContent([run EXCEPT !.flushed = f]))
    /\ fresh' = NoProcess("unused", <<>>)
    /\ UNCHANGED <<idFile, chunkSize>>

\* The user launches the program again with --restart on the same id file
\* and the output file the killed process left.
Relaunch ==
    /\ run.pc = "killed"
    /\ \E k \in RestartLines :
          /\ run' = NewProcess(TRUE, k, TRUE, run.disk)
          /\ fresh' = Reference(TRUE, k, TRUE, run.disk)
    /\ UNCHANGED <<idFile, chunkSize>>

Next ==
    \/ Start
    \/ ReadLine
    \/ EndOfInput
    \/ LookupOK
    \/ LookupRateLimit
    \/ LookupError
    \/ Close
    \/ Interrupt
    \/ Relaunch

Spec == Init /\ [][Next]_vars

\* One launch that nobody kills.  The program is sequential and every step
\* but the lookup answer is its own; the service stops answering "rate limit
\* exceeded" at some point.
NextRun ==
    \/ Start
    \/ ReadLine
    \/ EndOfInput
    \/ LookupOK
    \/ LookupRateLimit
    \/ LookupError
    \/ Close

Progress == Start \/ ReadLine \/ EndOfInput \/ LookupOK \/ LookupError \/ Close

LiveSpec == Init /\ [][NextRun]_vars /\ WF_vars(Progress)

----------------------------------------------------------------------------
(* Vocabulary of the properties *)

\* s is a JSON array: the opening bracket, the tweets with one separator
\* between two consecutive ones, the closing bracket
WellFormed(s) ==
    /\ Len(s) >= 2
    /\ Len(s) = 2 \/ Len(s) % 2 = 1
    /\ s[1] = OpenBracket
    /\ s[Len(s)] = CloseBracket
    /\ \A i \in 2..(Len(s) - 1) :
          IF i % 2 = 0 THEN s[i] \in Ids ELSE s[i] = Separator

Positions(s, x) == {i \in 1..Len(s) : s[i] = x}
TweetsWritten(r) == Cardinality({i \in 1..Len(r.written) : r.written[i] \in Ids})

RECURSIVE SumOver(_, _)
SumOver(f, S) ==
    IF S = {} THEN 0
    ELSE LET x == CHOOSE y \in S : TRUE IN f[x] + SumOver(f, S \ {x})
MissingWritten(r) == SumOver(r.missingFd, Ids)

ReturnedIds(tweets) == {tweets[i].id_str : i \in 1..Len(tweets)}
CeilDiv(n, c) == (n + c - 1) \div c
Min(a, b) == IF a < b THEN a ELSE b

FreshRun(r) == ~r.restartGiven /\ ~r.appendExistingFile
RestartAtLineOne(r) == r.restartGiven /\ r.restartAtLine = 1
RestartLater(r) == r.restartGiven /\ r.restartAtLine > 1 /\ r.appendExistingFile

\* the file was left by a killed process that had written a tweet
LeftAfterRecord(disk) ==
    /\ \E i \in 1..Len(disk) : disk[i] \in Ids
    /\ Positions(disk, CloseBracket) = {}

\* a step in which a call of rehydrateTweets returns to its caller
Completes ==
    /\ run.pc = "lookup"
    /\ run'.pc \in {"read", "close"}
    /\ run'.numFailed = run.numFailed

\* every id of the chunk of the step is a written tweet or a missing line
AccountedFor ==
    /\ (TweetsWritten(run') - TweetsWritten(run))
         + (MissingWritten(run') - MissingWritten(run)) = Len(run.tweetIdList)
    /\ \A id \in Ids :
          run'.missingFd[id] - run.missingFd[id] =
             IF id \in Range(run.tweetIdList) \ ReturnedIds(run'.rehydratedTweets)
             THEN 1 ELSE 0

\* the closing bracket is written by the last write of a run and by no other
ClosedAtEnd(r) ==
    IF r.pc = "done"
    THEN Positions(r.written, CloseBracket) = {Len(r.written)}
    ELSE Positions(r.written, CloseBracket) = {}

\* what the program does, as far as an observer of its variables and files
\* can tell, the output file apart
Behaviour(r) ==
    <<r.pc, r.firstLine, r.tweetIdList, r.linesInCurrentChunk, r.numLinesProcessed,
      r.numChunksProcessed, r.rehydratedTweets, r.constructedUrl, r.missingFd,
      r.skipped, r.numCalls, r.flushed>>

----------------------------------------------------------------------------
(* Properties *)

\* C1: a fresh run that completes leaves a well-formed JSON array in the
\* output file: '[', the tweets with exactly one separator before each but
\* the first, ']'.
C1_FreshOutputWellFormed ==
    (run.pc = "done" /\ FreshRun(run)) => WellFormed(FileContent(run))

\* C2: a run restarted at a line K > 1 against the output file of a run
\* killed after it wrote a tweet, once complete, leaves a well-formed JSON
\* array in that file.
C2_RestartedOutputWellFormed ==
    (run.pc = "done" /\ RestartLater(run) /\ LeftAfterRecord(run.disk))
        => WellFormed(FileContent(run))

\* C3: after a lookup error the ids of the failed chunk are never submitted
\* again, and the ids read afterwards are submitted in chunks of the
\* configured size.
C3_FailedChunkDropped ==
    run.pc = "lookup" =>
        /\ ChunkLines(run) \cap run.failedLines = {}
        /\ run.numFailed > 0 => Len(run.tweetIdList) <= chunkSize

\* C4: every chunk handed to the lookup holds at most chunkSize ids, with
\* chunkSize in 1..100, and the chunk buffer is cleared after each call, so
\* that it is below chunkSize whenever the next line is read.
C4_ChunkWithinSize ==
    /\ chunkSize \in 1..ChunkLimit
    /\ run.pc = "lookup" => Len(run.constructedUrl) <= chunkSize
    /\ run.pc = "read" => Len(run.tweetIdList) < chunkSize

\* C5 as stated: in every call of rehydrateTweets that returns, the tweets
\* written plus the missing lines written number the ids of the chunk, and
\* the missing lines are those of the ids that did not come back.
C5_EveryChunkAccounted == [][Completes => AccountedFor]_vars

\* C5 as amended: the same, for the chunks whose ids are pairwise distinct.
C5_DistinctChunkAccounted ==
    [][(Completes /\ IsDistinct(run.tweetIdList)) => AccountedFor]_vars

\* C5 witness: a chunk of distinct ids came back with a tweet and without
\* another.
C5_Witness ==
    /\ run.pc = "read"
    /\ Len(run.lastChunk) >= 2
    /\ IsDistinct(run.lastChunk)
    /\ Len(run.rehydratedTweets) >= 1
    /\ MissingWritten(run) >= 1
    /\ TweetsWritten(run) >= 1

\* C6: at the end of a run the number of calls of rehydrateTweets on a
\* non-empty chunk is ceil(N / chunkSize), N the number of lines read.
C6_ChunkCount ==
    run.pc = "done" => run.numCalls = CeilDiv(Len(idFile) - run.skipped, chunkSize)

\* C7 as stated: a run with restart line 1 does what a run without the
\* restart option does on the same id file, output file and lookup answers,
\* and writes the same strings, whether the output file exists or not.
C7_RestartAtOneIsFresh ==
    RestartAtLineOne(run) =>
        /\ Behaviour(run) = Behaviour(fresh)
        /\ run.written = fresh.written

\* C7 as amended: a run with restart line 1 does what a run without the
\* restart option does; it writes the same strings when the output file is
\* new, and when the output file exists its first string is the separator
\* where the other run writes the opening bracket, the rest being the same.
C7_RestartAtOneIsFreshButForPreamble ==
    RestartAtLineOne(run) =>
        /\ Behaviour(run) = Behaviour(fresh)
        /\ run.skipped = 0
        /\ Len(run.written) = Len(fresh.written)
        /\ \A i \in 1..Len(run.written) :
              IF i = 1
              THEN /\ fresh.written[1] = OpenBracket
                   /\ run.written[1] =
                        IF run.appendExistingFile THEN Separator ELSE OpenBracket
              ELSE run.written[i] = fresh.written[i]

\* C7 witness: a run with restart line 1 on an existing output file has
\* completed and has written a tweet.
C7_Witness ==
    /\ RestartAtLineOne(run)
    /\ run.appendExistingFile
    /\ run.pc = "done"
    /\ TweetsWritten(run) >= 1

\* C8: a run restarted at line K > 1 on an existing output file first writes
\* the separator, skips K - 1 lines (all of them when the file is shorter),
\* first submits the id of line K, and submits nothing when the id file has
\* fewer than K lines.
C8_RestartSkipsAndContinues ==
    (RestartLater(run) /\ run.pc # "start") =>
        /\ Len(run.written) >= 1 /\ run.written[1] = Separator
        /\ run.skipped = Min(run.restartAtLine - 1, Len(idFile))
        /\ (run.pc = "lookup" /\ run.numCalls = 1) =>
              /\ ChunkLines(run) # {}
              /\ \A n \in ChunkLines(run) : n >= run.restartAtLine
              /\ run.restartAtLine \in ChunkLines(run)
              /\ run.constructedUrl[1] = idFile[run.restartAtLine]
        /\ Len(idFile) < run.restartAtLine => run.numCalls = 0

\* C8 witness: the first chunk of a run restarted at a line K > 1 is looked up.
C8_Witness ==
    /\ RestartLater(run)
    /\ run.pc = "lookup"
    /\ run.numCalls = 1
    /\ run.skipped >= 1

\* C9: whenever a lookup was answered "rate limit exceeded", the sleep is
\* delta + 1 = resetTime - now + 1 seconds and not negative, and the call
\* goes on to look the same chunk up again.
C9_RateLimitSleepNonNegative ==
    run.rateLimit # <<>> =>
        /\ run.rateLimit[1].slept = run.rateLimit[1].delta + 1
        /\ run.rateLimit[1].slept >= 0
        /\ run.pc = "lookup"
        /\ run.constructedUrl = run.tweetIdList

\* C10: a run that raises no unclassified exception ends, and the closing
\* bracket is written once, as the last write, lookup errors or not.
C10_Terminates ==
    /\ <>(run.pc = "done" \/ run.pc = "crashed")
    /\ [](ClosedAtEnd(run))

\* C10 witness: a run in which a lookup failed has ended.
C10_Witness ==
    /\ run.pc = "done"
    /\ run.numFailed >= 1
    /\ Positions(run.written, CloseBracket) = {Len(run.written)}

====
